---- MODULE Spec2Model ----
(***************************************************************************)
(* Model of the couples-game bot: the per-chat in-memory game sessions of  *)
(* CouplesGameBot (src/main.py), its access checks, and the tasks and      *)
(* users tables of Database (src/database.py).                             *)
(*                                                                         *)
(* A player is modelled by its gender (names and emoji never decide a      *)
(* branch), a task id by a number (ids are uuid-generated and never        *)
(* reused), Python's None by the string "None".                            *)
(***************************************************************************)
EXTENDS Integers, Sequences, FiniteSets, TLC

VARIABLES
    user_games,   \* CouplesGameBot.user_games: chat_id -> game_state
    tasks,        \* rows of the tasks table
    next_id,      \* the next fresh task id
    last,         \* what the last handled event or call returned / rendered
    users,        \* rows of the users table, by id
    now,          \* datetime.now(), in days
    games,        \* the active rows of the games table, in the order of their ids
    calls         \* the moderate_task call each connection to bot.db is in

vars == <<user_games, tasks, next_id, last, users, now, games, calls>>

(***************************** bounds *************************************)

\* ids ever handed out to rows of the tasks table in SpecStore
MaxTasks == 2
\* completions and skips handled per session in Spec
MaxTurns == 1
\* completions and skips handled per session in SpecRoster
MaxRosterTurns == 3
\* completions and skips handled per session in SpecThreshold
MaxCompleted == 21
\* largest moderation_order a skip may hand out
MaxOrder == 1
\* days the clock runs in SpecAccess
MaxTime == 2
\* longest temporary block, in days
MaxDays == 1

(************************** program constants *****************************)

CategoryThreshold == 20

None == "None"

Categories == <<"acquaintance", "flirt", "prelude", "fire">>

CategorySet == {Categories[i] : i \in 1..Len(Categories)}

Genders == {"male", "female"}

Buckets == {"male", "female", "common"}

GameTypes == {"2couples", "fmf", "mfm"}

GameModes == {"basic", "extended"}

Chats == {1, 2}

Users == {1, 2}

\* the id of the row set_fixed_owner inserts
OwnerId == 0 - 1

\* every id the users table may hold: the fixed row, Users, and user 3
UserIds == {OwnerId, 1, 2, 3}

\* update.effective_user.username, lower-cased
Username(user_id) ==
    CASE user_id = 1 -> "virgo_e"
      [] user_id = 3 -> "mpr_xo"
      [] OTHER -> "user"

TaskIds == 1..MaxTasks

\* categories.index(category), 1-based
CategoryIndex(category) == CHOOSE i \in 1..Len(Categories) : Categories[i] = category

(***************************** tasks table ********************************)

Row(id, text, category, gender, game_mode, task_type, is_custom, created_by, is_public, moderation_status) ==
    [id |-> id, text |-> text, category |-> category, gender |-> gender,
     game_mode |-> game_mode, task_type |-> task_type, is_custom |-> is_custom,
     created_by |-> created_by, is_public |-> is_public,
     moderation_status |-> moderation_status, moderation_order |-> 0]

\* the value of game_state.get('current_task') when the key is absent
NoTask == Row(0, None, None, None, None, None, FALSE, 0, FALSE, None)

HasRow(id) == \E t \in tasks : t.id = id

get_task_by_id(id) == IF HasRow(id) THEN CHOOSE t \in tasks : t.id = id ELSE NoTask

\* the rows of a result set in ORDER BY id
OrderById(rows) ==
    [i \in 1..Cardinality(rows) |->
        CHOOSE t \in rows : Cardinality({o \in rows : o.id < t.id}) = i - 1]

\* a variant that forgets task_type = 'base'
get_base_tasks_AnyPublic(category, gender, game_type) ==
    OrderById({t \in tasks :
        /\ t.category = category
        /\ t.gender = gender
        /\ t.game_mode = game_type
        /\ t.is_public})

get_base_tasks_by_category_gender_and_type(category, gender, game_type) ==
    OrderById({t \in tasks :
        /\ t.category = category
        /\ t.gender = gender
        /\ t.game_mode = game_type
        /\ t.task_type = "base"
        /\ t.is_public})

\* rank of the CASE in the ORDER BY of get_extended_tasks_by_type
ExtendedRank(t, user_id) ==
    IF t.created_by = user_id THEN 1
    ELSE IF t.moderation_status = "approved" THEN 2
    ELSE 3

\* a variant that forgets "OR created_by = ?"
ExtendedUserRows_ApprovedOnly(category, gender, game_type, user_id) ==
    {t \in tasks :
        /\ t.game_mode = game_type
        /\ t.category = category
        /\ t.gender = gender
        /\ t.is_custom
        /\ t.moderation_status = "approved"}

ExtendedUserRows(category, gender, game_type, user_id) ==
    {t \in tasks :
        /\ t.game_mode = game_type
        /\ t.category = category
        /\ t.gender = gender
        /\ t.is_custom
        /\ (t.moderation_status = "approved" \/ t.created_by = user_id)
        /\ ~(t.moderation_status = "rejected" /\ t.created_by # user_id)}

get_extended_tasks_by_type(category, gender, game_type, user_id) ==
    LET base_tasks == get_base_tasks_by_category_gender_and_type(category, gender, game_type)
        rows == ExtendedUserRows(category, gender, game_type, user_id)
        ranked(r) == OrderById({t \in rows : ExtendedRank(t, user_id) = r})
    IN  base_tasks \o ranked(1) \o ranked(2) \o ranked(3)

PendingRows(game_mode, category, gender) ==
    {t \in tasks :
        /\ t.game_mode = game_mode
        /\ t.category = category
        /\ t.gender = gender
        /\ t.is_custom
        /\ t.moderation_status = "pending"}

\* the rows of a result set in ORDER BY moderation_order ASC, created_at ASC:
\* ids are given in the order of the INSERTs, so id stands for created_at
RECURSIVE OrderByModerationOrder(_)
OrderByModerationOrder(rows) ==
    IF rows = {} THEN <<>>
    ELSE LET first == CHOOSE t \in rows : \A o \in rows :
                          \/ t.moderation_order < o.moderation_order
                          \/ t.moderation_order = o.moderation_order /\ t.id <= o.id
         IN  <<first>> \o OrderByModerationOrder(rows \ {first})

get_pending_moderation_tasks(game_mode, category, gender) ==
    OrderByModerationOrder(PendingRows(game_mode, category, gender))

\* each operation of the store: the table after the call and the value returned
Result(rows, ok) == [rows |-> rows, ok |-> ok]

add_base_task(id, category, gender, text, game_mode) ==
    Result(tasks \cup {Row(id, text, category, gender, game_mode, "base", FALSE, 0,
                           TRUE, "approved")}, TRUE)

add_custom_task(task_id, text, category, gender, game_mode, user_id) ==
    IF HasRow(task_id) THEN Result(tasks, FALSE)
    ELSE Result(tasks \cup {Row(task_id, text, category, gender, game_mode,
                                "user_pending", TRUE, user_id, FALSE, "draft")}, TRUE)

\* a variant that forgets "moderation_status != 'pending'"
SubmitGuard_AnyCustom(t) == t.is_custom

\* a variant that forgets "is_custom = TRUE"
SubmitGuard_AnyTask(t) == t.moderation_status # "pending"

SubmitGuard(t) == t.is_custom /\ t.moderation_status # "pending"

submit_task_for_moderation(task_id) ==
    LET t == get_task_by_id(task_id) IN
    IF ~(HasRow(task_id) /\ SubmitGuard(t)) THEN Result(tasks, FALSE)
    ELSE Result((tasks \ {t}) \cup {[t EXCEPT !.moderation_status = "pending"]}, TRUE)

\* a variant that forgets "moderation_status = 'pending'"
ModerateGuard_AnyCustom(t) == t.is_custom

ModerateGuard(t) == t.is_custom /\ t.moderation_status = "pending"

\* a variant that writes the status column only
Moderated_StatusOnly(t, action) ==
    [t EXCEPT !.moderation_status = IF action = "approve" THEN "approved" ELSE "rejected"]

Moderated(t, action) ==
    IF action = "approve"
    THEN [t EXCEPT !.moderation_status = "approved", !.is_public = TRUE,
                   !.task_type = "user_approved"]
    ELSE [t EXCEPT !.moderation_status = "rejected", !.is_public = FALSE,
                   !.task_type = "user_pending"]

moderate_task(task_id, action) ==
    LET t == get_task_by_id(task_id) IN
    IF ~(HasRow(task_id) /\ ModerateGuard(t)) THEN Result(tasks, FALSE)
    ELSE Result((tasks \ {t}) \cup {Moderated(t, action)}, TRUE)

\* a variant that takes the queue for empty
MaxPendingOrder_Zero(game_mode, category, gender) == 0

MaxPendingOrder(game_mode, category, gender) ==
    LET rows == PendingRows(game_mode, category, gender) IN
    IF rows = {} THEN 0
    ELSE (CHOOSE t \in rows : \A o \in rows : o.moderation_order <= t.moderation_order).moderation_order

\* a variant whose UPDATE has no "moderation_status = 'pending'"
skip_task_for_moderation_AnyStatus(task_id, game_mode, category, gender) ==
    LET t == get_task_by_id(task_id)
        max_order == IF PendingRows(game_mode, category, gender) = {} THEN 0
                     ELSE (CHOOSE r \in PendingRows(game_mode, category, gender) :
                              \A o \in PendingRows(game_mode, category, gender) :
                                  o.moderation_order <= r.moderation_order).moderation_order
    IN  IF HasRow(task_id) /\ t.is_custom
        THEN Result((tasks \ {t}) \cup {[t EXCEPT !.moderation_order = max_order + 1]}, TRUE)
        ELSE Result(tasks, TRUE)

skip_task_for_moderation(task_id, game_mode, category, gender) ==
    LET t == get_task_by_id(task_id)
        max_order == MaxPendingOrder(game_mode, category, gender)
    IN  IF HasRow(task_id) /\ t.is_custom /\ t.moderation_status = "pending"
        THEN Result((tasks \ {t}) \cup {[t EXCEPT !.moderation_order = max_order + 1]}, TRUE)
        ELSE Result(tasks, TRUE)

delete_base_task(task_id) ==
    Result({t \in tasks : t.id # task_id}, HasRow(task_id))

delete_custom_task(task_id, user_id) ==
    LET t == get_task_by_id(task_id) IN
    IF HasRow(task_id) /\ t.created_by = user_id /\ t.task_type = "user_pending"
    THEN Result(tasks \ {t}, TRUE)
    ELSE Result(tasks, FALSE)

update_base_task(task_id, new_text, category, gender) ==
    LET t == get_task_by_id(task_id) IN
    IF HasRow(task_id)
    THEN Result((tasks \ {t}) \cup {[t EXCEPT !.text = new_text, !.category = category,
                                              !.gender = gender]}, TRUE)
    ELSE Result(tasks, FALSE)

(***************************** users table ********************************)

\* blocked_until IS NULL
Forever == 0 - 1

UserRow(is_owner, is_admin, is_moderator) ==
    [present |-> TRUE, is_owner |-> is_owner, is_admin |-> is_admin,
     is_moderator |-> is_moderator, is_blocked |-> FALSE, blocked_until |-> Forever]

\* fetchone() found no row
NoUser == [UserRow(FALSE, FALSE, FALSE) EXCEPT !.present = FALSE]

\* the users table after init_database: the one row set_fixed_owner inserts
FreshUsers == [id \in UserIds |-> IF id = OwnerId THEN UserRow(TRUE, TRUE, FALSE) ELSE NoUser]

\* the reads and the writes take the table, so that a handler can chain them
db_is_admin(table, user_id) == table[user_id].present /\ table[user_id].is_admin

db_is_owner(table, user_id) ==
    IF user_id = OwnerId THEN TRUE
    ELSE table[user_id].present /\ table[user_id].is_owner

db_is_moderator(table, user_id) == table[user_id].present /\ table[user_id].is_moderator

get_admin_level_AdminFirst(table, user_id) ==
    IF user_id = OwnerId THEN "owner"
    ELSE IF ~table[user_id].present THEN "user"
    ELSE IF table[user_id].is_admin THEN "admin"
    ELSE IF table[user_id].is_owner THEN "owner"
    ELSE IF table[user_id].is_moderator THEN "moderator"
    ELSE "user"

get_admin_level(table, user_id) ==
    IF user_id = OwnerId THEN "owner"
    ELSE IF ~table[user_id].present THEN "user"
    ELSE IF table[user_id].is_owner THEN "owner"
    ELSE IF table[user_id].is_admin THEN "admin"
    ELSE IF table[user_id].is_moderator THEN "moderator"
    ELSE "user"

set_admin(table, user_id, flag) ==
    IF table[user_id].present THEN [table EXCEPT ![user_id].is_admin = flag] ELSE table

set_owner(table, user_id, flag) ==
    IF table[user_id].present THEN [table EXCEPT ![user_id].is_owner = flag] ELSE table

set_moderator(table, user_id, flag) ==
    IF table[user_id].present THEN [table EXCEPT ![user_id].is_moderator = flag] ELSE table

\* a variant that writes the row with INSERT OR REPLACE
add_user_Replaces(table, user_id) ==
    LET old == table[user_id]
    IN  [table EXCEPT ![user_id] = UserRow(old.is_owner, old.is_admin, old.is_moderator)]

add_user(table, user_id) ==
    LET name == Username(user_id)
        old == table[user_id]
        is_owner == IF name = "mpr_xo" THEN TRUE
                    ELSE IF name = "virgo_e" THEN FALSE
                    ELSE old.is_owner
        is_admin == IF name \in {"mpr_xo", "virgo_e"} THEN TRUE ELSE old.is_admin
    IN  IF old.present
        THEN [table EXCEPT ![user_id].is_owner = is_owner, ![user_id].is_admin = is_admin]
        ELSE [table EXCEPT ![user_id] = UserRow(is_owner, is_admin, FALSE)]

add_administrator(table, user_id, level) ==
    IF ~table[user_id].present THEN table
    ELSE IF level = "admin"
    THEN [table EXCEPT ![user_id].is_admin = TRUE, ![user_id].is_moderator = FALSE]
    ELSE IF level = "moderator"
    THEN [table EXCEPT ![user_id].is_moderator = TRUE, ![user_id].is_admin = FALSE]
    ELSE table

\* days is None, written Forever, blocks forever
block_user(table, user_id, days) ==
    IF ~table[user_id].present THEN table
    ELSE [table EXCEPT ![user_id].is_blocked = TRUE,
                       ![user_id].blocked_until = IF days = Forever THEN Forever ELSE now + days]

unblock_user(table, user_id) ==
    IF ~table[user_id].present THEN table
    ELSE [table EXCEPT ![user_id].is_blocked = FALSE, ![user_id].blocked_until = Forever]

BlockedWhile_UntilIncluded(blocked_until) == now <= blocked_until

\* datetime.now() < blocked_until_dt
BlockedWhile(blocked_until) == now < blocked_until

is_user_blocked(table, user_id) ==
    LET result == table[user_id] IN
    IF ~result.present THEN FALSE
    ELSE IF ~result.is_blocked THEN FALSE
    ELSE IF result.blocked_until = Forever THEN TRUE
    ELSE BlockedWhile(result.blocked_until)

(**************************** access checks *******************************)

is_admin(table, user_id) == db_is_admin(table, user_id)

is_owner(table, user_id) ==
    IF Username(user_id) = "mpr_xo" THEN TRUE ELSE db_is_owner(table, user_id)

is_moderator(table, user_id) == db_is_moderator(table, user_id)

has_admin_access(table, user_id) ==
    IF Username(user_id) \in {"mpr_xo", "virgo_e"} THEN TRUE
    ELSE db_is_owner(table, user_id) \/ db_is_admin(table, user_id)

has_moderation_access(table, user_id) ==
    IF Username(user_id) \in {"mpr_xo", "virgo_e"} THEN TRUE
    ELSE \/ db_is_owner(table, user_id)
         \/ db_is_admin(table, user_id)
         \/ db_is_moderator(table, user_id)

can_manage_administrators(table, user_id) ==
    IF Username(user_id) = "mpr_xo" THEN TRUE ELSE db_is_owner(table, user_id)

ensure_owner_rights(table, user_id) ==
    IF Username(user_id) = "mpr_xo"
    THEN set_admin(set_owner(add_user(table, user_id), user_id, TRUE), user_id, TRUE)
    ELSE IF Username(user_id) = "virgo_e"
    THEN set_admin(add_user(table, user_id), user_id, TRUE)
    ELSE table

rank_FlagsOnly(table, user_id) == get_admin_level(table, user_id)

\* admin_level, as show_admin_panel resolves it
rank(table, user_id) ==
    IF Username(user_id) = "mpr_xo" THEN "owner" ELSE get_admin_level(table, user_id)

\* users.is_admin is TRUE for these users
Admins == {1}

\* the users table the game and store specifications run on: every user has
\* interacted before, and the users in Admins carry the admin flag
KnownUsers ==
    [id \in UserIds |->
        IF id = OwnerId THEN FreshUsers[id]
        ELSE IF id \in Admins THEN UserRow(FALSE, TRUE, FALSE)
        ELSE IF Username(id) = "mpr_xo" THEN UserRow(TRUE, TRUE, FALSE)
        ELSE UserRow(FALSE, FALSE, FALSE)]

\* the callback submit_moderation_<task_id> pressed by user_id
handle_submit_moderation(task_id, user_id) ==
    LET t == get_task_by_id(task_id) IN
    IF ~HasRow(task_id) THEN Result(tasks, FALSE)
    ELSE IF ~t.is_custom THEN Result(tasks, FALSE)
    ELSE IF t.created_by # user_id THEN Result(tasks, FALSE)
    ELSE IF t.moderation_status \in {"pending", "approved"} THEN Result(tasks, FALSE)
    ELSE submit_task_for_moderation(task_id)

\* the message handle_submit_moderation edits into the chat
handle_submit_moderation_reply(task_id, user_id) ==
    LET t == get_task_by_id(task_id) IN
    IF ~HasRow(task_id) THEN "task_not_found"
    ELSE IF ~t.is_custom THEN "only_custom_tasks"
    ELSE IF t.created_by # user_id THEN "not_your_task"
    ELSE IF t.moderation_status = "pending" THEN "already_pending"
    ELSE IF t.moderation_status = "approved" THEN "already_approved"
    ELSE IF submit_task_for_moderation(task_id).ok THEN "submitted"
    ELSE "submit_error"

\* the message handle_moderate_task edits into the chat
handle_moderate_task_reply(task_id, action, user_id) ==
    LET t == get_task_by_id(task_id) IN
    IF ~is_admin(users, user_id) THEN "no_moderation_rights"
    ELSE IF ~HasRow(task_id) THEN "task_not_found"
    ELSE IF ~t.is_custom THEN "only_custom_tasks"
    ELSE IF t.moderation_status # "pending" THEN "already_reviewed"
    ELSE IF moderate_task(task_id, action).ok THEN "moderated"
    ELSE "moderation_error"

\* the callback confirm_delete_<task_id> pressed by user_id
handle_confirm_delete(task_id, user_id) ==
    IF ~HasRow(task_id) THEN Result(tasks, FALSE)
    ELSE delete_custom_task(task_id, user_id)

\* the message handle_confirm_delete edits into the chat
handle_confirm_delete_reply(task_id, user_id) ==
    IF ~HasRow(task_id) THEN "task_not_found"
    ELSE IF delete_custom_task(task_id, user_id).ok THEN "deleted"
    ELSE "delete_error"

\* the callbacks moderate_approve_<task_id> and moderate_reject_<task_id> pressed by user_id
handle_moderate_task(task_id, action, user_id) ==
    LET t == get_task_by_id(task_id) IN
    IF ~is_admin(users, user_id) THEN Result(tasks, FALSE)
    ELSE IF ~HasRow(task_id) THEN Result(tasks, FALSE)
    ELSE IF ~t.is_custom THEN Result(tasks, FALSE)
    ELSE IF t.moderation_status # "pending" THEN Result(tasks, FALSE)
    ELSE moderate_task(task_id, action)

(***************************** games table ********************************)

\* the columns of a row that a statement of the program reads or writes
GameRow(chat_id, is_active) == [chat_id |-> chat_id, is_active |-> is_active]

\* The table is kept as its rows with is_active = TRUE: once a row is inactive
\* no statement changes it again, and the only thing read of it is that it
\* exists (the count of all games in get_statistics, which is not modelled).
ActiveRows(table) == SelectSeq(table, LAMBDA row : row.is_active)

\* a variant without the UPDATE
save_game_state_KeepsActive(table, chat_id) ==
    ActiveRows(Append(table, GameRow(chat_id, TRUE)))

save_game_state(table, chat_id) ==
    LET updated == [i \in 1..Len(table) |->
                       IF table[i].chat_id = chat_id
                       THEN [table[i] EXCEPT !.is_active = FALSE]
                       ELSE table[i]]
    IN  ActiveRows(Append(updated, GameRow(chat_id, TRUE)))

\* the games table outlives the bot (bot.db): the row of a game started in
\* chat 1 before the bot was restarted
SeedGames == <<GameRow(1, TRUE)>>

(***************************** game sessions ******************************)

NoUsed == [b \in Buckets |-> <<>>]

\* the dict start_game_setup and quick_start_game build
NewGame(players, is_game_started, setup_step, game_mode, game_type) ==
    [kind |-> "game",
     players |-> players,
     current_player_index |-> 0,
     current_category |-> "acquaintance",
     used_tasks |-> [c \in CategorySet |-> NoUsed],
     tasks_completed_per_category |-> [c \in CategorySet |-> 0],
     is_game_started |-> is_game_started,
     setup_step |-> setup_step,
     game_mode |-> game_mode,
     game_type |-> game_type,
     current_task |-> NoTask]

\* chat_id not in self.user_games
NoGame == [NewGame(<<>>, FALSE, None, None, None) EXCEPT !.kind = "none"]

InGames(chat) == user_games[chat].kind # "none"

\* a variant whose rosters all start with a man
Roster_MaleFirst(game_type) ==
    IF game_type = "2couples" THEN <<"male", "female", "male", "female">>
    ELSE IF game_type \in {"fmf", "mfm"} THEN <<"male", "female", "male">>
    ELSE <<>>

\* the rosters quick_start_game builds, by gender
Roster(game_type) ==
    IF game_type = "2couples" THEN <<"male", "female", "male", "female">>
    ELSE IF game_type = "fmf" THEN <<"female", "male", "female">>
    ELSE IF game_type = "mfm" THEN <<"male", "female", "male">>
    ELSE <<>>

\* players_count of handle_task_completed
PlayersCount(game_type) == IF game_type = "2couples" THEN 4 ELSE 3

\* game_data.get_game_mode_info(game_type)['players_count']
ExpectedCount(game_type) == IF game_type = "2couples" THEN 4 ELSE 3

\* game_data.validate_players_for_mode: the roster has the composition of the
\* chosen type; with no type chosen there is nothing it could match
validate_players_for_mode(players, game_type) ==
    game_type \in GameTypes /\ players = Roster(game_type)

\* the players handle_player_names builds from `count` names, by gender
NamedPlayers(count, game_type) ==
    IF game_type \in {"2couples", "mfm"}
    THEN [i \in 1..count |-> IF (i - 1) % 2 = 0 THEN "male" ELSE "female"]
    ELSE IF game_type = "fmf"
    THEN [i \in 1..count |-> IF (i - 1) % 2 = 0 THEN "female" ELSE "male"]
    ELSE <<>>

\* players[current_player_index] raises IndexError
IndexOutOfRange(g) == g.current_player_index >= Len(g.players)

CurrentPlayer(g) == g.players[g.current_player_index + 1]

\* a variant that keeps the used tasks
FilterUnused_KeepsUsed(list, used) == list

FilterUnused(list, used) == SelectSeq(list, LAMBDA t : \A i \in 1..Len(used) : used[i] # t.id)

FetchFor(g, gender, user_id) ==
    IF g.game_mode = "basic"
    THEN get_base_tasks_by_category_gender_and_type(g.current_category, gender, g.game_type)
    ELSE get_extended_tasks_by_type(g.current_category, gender, g.game_type, user_id)

\* a variant that forgets available_common
all_available_GenderOnly(g, user_id) ==
    FilterUnused(FetchFor(g, CurrentPlayer(g), user_id),
                 g.used_tasks[g.current_category][CurrentPlayer(g)])

\* all_available of get_next_task
all_available(g, user_id) ==
    LET all_tasks == FetchFor(g, CurrentPlayer(g), user_id)
        common_tasks == FetchFor(g, "common", user_id)
        used_gender_tasks == g.used_tasks[g.current_category][CurrentPlayer(g)]
        used_common_tasks == g.used_tasks[g.current_category]["common"]
    IN  FilterUnused(all_tasks, used_gender_tasks) \o FilterUnused(common_tasks, used_common_tasks)

\* the values get_next_task may return: None, or any element (random.choice)
get_next_task(g, user_id) ==
    LET avail == all_available(g, user_id) IN
    IF avail = <<>> THEN {NoTask} ELSE {avail[i] : i \in 1..Len(avail)}

can_move_to_next_category(g) == CategoryIndex(g.current_category) < Len(Categories)

\* what a handler leaves behind: the session, the message rendered, and the
\* task get_next_task returned (NotCalled when it was not called, 0 for None)
NotCalled == 0 - 1

Outcome(g, reply, drawn) == [game |-> g, reply |-> reply, drawn |-> drawn]

\* a variant that offers a next level after the last category too
show_next_category_modal_NoEnd(g) == "next_category_modal"

show_next_category_modal(g) ==
    IF can_move_to_next_category(g) THEN "next_category_modal" ELSE "game_complete"

start_game_round(g, user_id) ==
    IF IndexOutOfRange(g) THEN {Outcome(g, "error", NotCalled)}
    ELSE {IF task = NoTask
          THEN Outcome(g, show_next_category_modal(g), 0)
          ELSE Outcome([g EXCEPT !.current_task = task], "task", task.id)
          : task \in get_next_task(g, user_id)}

\* the bucket handle_task_completed appends the current task's id to
UsedBucket(g) ==
    IF g.current_task.gender = "common" THEN "common" ELSE CurrentPlayer(g)

\* a variant that compares with > instead of >=
ThresholdReached_Above(count) == count > CategoryThreshold

ThresholdReached(count) == count >= CategoryThreshold

NextPlayerIndex(g) == (g.current_player_index + 1) % PlayersCount(g.game_type)

\* a variant that counts the task and does not record its id
MarkCompleted_CountOnly(g) ==
    [g EXCEPT !.tasks_completed_per_category[g.current_category] = @ + 1,
              !.current_player_index = NextPlayerIndex(g)]

MarkCompleted(g) ==
    LET category == g.current_category
        bucket == UsedBucket(g)
    IN  [g EXCEPT !.used_tasks[category][bucket] = Append(@, g.current_task.id),
                  !.tasks_completed_per_category[category] = @ + 1,
                  !.current_player_index = NextPlayerIndex(g)]

handle_task_completed(g, user_id) ==
    IF g.kind = "none" THEN {Outcome(g, "game_not_found", NotCalled)}
    ELSE IF g.current_task = NoTask THEN {Outcome(g, "no_current_task", NotCalled)}
    ELSE IF g.current_task.gender # "common" /\ IndexOutOfRange(g)
    THEN {Outcome(g, "error", NotCalled)}
    ELSE LET g1 == MarkCompleted(g) IN
         IF ThresholdReached(g1.tasks_completed_per_category[g1.current_category])
         THEN {Outcome(g1, "threshold", NotCalled)}
         ELSE start_game_round(g1, user_id)

\* a variant that passes the turn on and records nothing
handle_skip_task_NotCounted(g, user_id) ==
    IF g.kind = "none" THEN {Outcome(g, "game_not_found", NotCalled)}
    ELSE IF g.current_task = NoTask THEN {Outcome(g, "no_current_task", NotCalled)}
    ELSE start_game_round([g EXCEPT !.current_player_index = NextPlayerIndex(g)], user_id)

handle_skip_task(g, user_id) == handle_task_completed(g, user_id)

\* a variant that starts every category afresh
handle_next_category_ResetsAll(g, user_id) ==
    IF g.kind = "none" THEN {Outcome(g, "game_not_found", NotCalled)}
    ELSE IF ~can_move_to_next_category(g) THEN {Outcome(g, "error", NotCalled)}
    ELSE LET next_category == Categories[CategoryIndex(g.current_category) + 1]
             g1 == [g EXCEPT !.current_category = next_category,
                             !.used_tasks = [c \in CategorySet |-> NoUsed],
                             !.tasks_completed_per_category = [c \in CategorySet |-> 0]]
         IN  start_game_round(g1, user_id)

handle_next_category(g, user_id) ==
    IF g.kind = "none" THEN {Outcome(g, "game_not_found", NotCalled)}
    ELSE IF ~can_move_to_next_category(g) THEN {Outcome(g, "error", NotCalled)}
    ELSE LET next_category == Categories[CategoryIndex(g.current_category) + 1]
             g1 == [g EXCEPT !.current_category = next_category,
                             !.used_tasks[next_category] = NoUsed,
                             !.tasks_completed_per_category[next_category] = 0]
         IN  start_game_round(g1, user_id)

TotalCompleted(g) ==
    LET n(i) == g.tasks_completed_per_category[Categories[i]]
    IN  n(1) + n(2) + n(3) + n(4)

(******************************* events ***********************************)

\* the record of the last event: the message a handler rendered (with the task
\* get_next_task returned and the user it was called for), or a store call's return
NoPartition == <<None, None, None>>

Shown(user_id, reply, drawn) ==
    [event |-> "render", user_id |-> IF drawn = NotCalled THEN 0 ELSE user_id,
     reply |-> reply, drawn |-> drawn,
     task_id |-> 0, ok |-> FALSE, partition |-> NoPartition, fetched |-> <<>>]

Returned(event, task_id, user_id, ok) ==
    [event |-> event, user_id |-> user_id, reply |-> None, drawn |-> NotCalled,
     task_id |-> task_id, ok |-> ok, partition |-> NoPartition, fetched |-> <<>>]

\* a variant that stores the session under every chat
SetGame_AllChats(chat, g) == user_games' = [c \in DOMAIN user_games |-> g]

SetGame(chat, g) == user_games' = [user_games EXCEPT ![chat] = g]

\* a handler of a game event applied to chat's session, for a user who is not
\* blocked and whose row ensure_owner_rights leaves as it is (KnownUsers)
Handle(chat, user_id, outcomes) ==
    \E o \in outcomes :
        /\ SetGame(chat, o.game)
        /\ last' = Shown(user_id, o.reply, o.drawn)
        /\ UNCHANGED <<tasks, next_id, users, now, games, calls>>

StartGameSetup(chat) ==
    Handle(chat, 0,
           {Outcome(NewGame(<<>>, FALSE, "game_type", None, None), "type_menu", NotCalled)})

HandleGameTypeSelection(chat, game_type) ==
    LET g == user_games[chat] IN
    Handle(chat, 0,
           {Outcome(IF InGames(chat)
                    THEN [g EXCEPT !.game_type = game_type, !.setup_step = "mode"]
                    ELSE g,
                    "mode_menu", NotCalled)})

HandleGameModeSelection(chat, mode) ==
    LET g == user_games[chat] IN
    Handle(chat, 0,
           IF InGames(chat)
           THEN {Outcome([g EXCEPT !.game_mode = mode, !.setup_step = "names"],
                         "names_prompt", NotCalled)}
           ELSE {Outcome(g, "error", NotCalled)})

\* a variant that takes the names at any step of the setup
MessageHandler_AnyStep(chat, count) ==
    LET g == user_games[chat] IN
    Handle(chat, 0,
           IF ~InGames(chat)
           THEN {Outcome(g, "menu_hint", NotCalled)}
           ELSE IF count # ExpectedCount(g.game_type)
           THEN {Outcome(g, "names_error", NotCalled)}
           ELSE {Outcome([g EXCEPT !.players = NamedPlayers(count, g.game_type)],
                         "players_confirm", NotCalled)})

\* a text message of `count` comma-separated names
MessageHandler(chat, count) ==
    LET g == user_games[chat] IN
    Handle(chat, 0,
           IF ~(InGames(chat) /\ g.setup_step = "names")
           THEN {Outcome(g, "menu_hint", NotCalled)}
           ELSE IF count # ExpectedCount(g.game_type)
           THEN {Outcome(g, "names_error", NotCalled)}
           ELSE IF ~validate_players_for_mode(NamedPlayers(count, g.game_type), g.game_type)
           THEN {Outcome(g, "names_error", NotCalled)}
           ELSE {Outcome([g EXCEPT !.players = NamedPlayers(count, g.game_type)],
                         "players_confirm", NotCalled)})

QuickStartGame(chat, game_type) ==
    LET saved_game_mode == IF InGames(chat) THEN user_games[chat].game_mode ELSE None
        game_mode == IF saved_game_mode = None THEN "basic" ELSE saved_game_mode
    IN  Handle(chat, 0,
               {Outcome(NewGame(Roster(game_type), TRUE, "completed", game_mode, game_type),
                        "quick_start", NotCalled)})

\* start_game saves the session before the round starts
StartGame(chat, user_id) ==
    IF ~InGames(chat)
    THEN Handle(chat, user_id, {Outcome(user_games[chat], "game_not_found", NotCalled)})
    ELSE /\ \E o \in start_game_round([user_games[chat] EXCEPT !.is_game_started = TRUE],
                                      user_id) :
                /\ SetGame(chat, o.game)
                /\ last' = Shown(user_id, o.reply, o.drawn)
         /\ games' = save_game_state(games, chat)
         /\ UNCHANGED <<tasks, next_id, users, now, calls>>

\* a completion counts against `cap`, the bound on the turns of a session
TurnAllowed(chat, cap) == TotalCompleted(user_games[chat]) < cap

HandleTaskCompleted(chat, user_id, cap) ==
    /\ TurnAllowed(chat, cap)
    /\ Handle(chat, user_id, handle_task_completed(user_games[chat], user_id))

HandleSkipTask(chat, user_id, cap) ==
    /\ TurnAllowed(chat, cap)
    /\ Handle(chat, user_id, handle_skip_task(user_games[chat], user_id))

HandleNextCategory(chat, user_id) ==
    Handle(chat, user_id, handle_next_category(user_games[chat], user_id))

\* a variant that starts the category's count afresh
HandleContinueCurrentCategory_Resets(chat, user_id) ==
    LET g == user_games[chat] IN
    Handle(chat, user_id,
           IF ~InGames(chat) THEN {Outcome(g, "error", NotCalled)}
           ELSE start_game_round(
                    [g EXCEPT !.tasks_completed_per_category[g.current_category] = 0,
                              !.used_tasks[g.current_category] = NoUsed], user_id))

HandleContinueCurrentCategory(chat, user_id) ==
    Handle(chat, user_id,
           IF ~InGames(chat) THEN {Outcome(user_games[chat], "error", NotCalled)}
           ELSE start_game_round(user_games[chat], user_id))

\* a variant that shows the main menu and keeps the session
HandleEndGame_KeepsSession(chat) ==
    Handle(chat, 0, {Outcome(user_games[chat], "main_menu", NotCalled)})

HandleEndGame(chat) ==
    Handle(chat, 0, {Outcome(NoGame, "main_menu", NotCalled)})

(**************************** store calls *********************************)

\* the connections that call moderate_task at the same time
Connections == {1, 2}

NoCall == [pc |-> "idle", task_id |-> 0, action |-> None, ok |-> FALSE]

\* moderate_task up to the fetchone() of its SELECT: the call returns False
\* when no row matches; the SELECT holds no lock once it is read
ModerateSelect(c, task_id, action) ==
    LET t == get_task_by_id(task_id)
        found == HasRow(task_id) /\ ModerateGuard(t)
    IN  /\ calls[c].pc = "idle"
        /\ calls' = [calls EXCEPT ![c] = [pc |-> IF found THEN "selected" ELSE "returned",
                                          task_id |-> task_id, action |-> action,
                                          ok |-> FALSE]]
        /\ UNCHANGED <<user_games, tasks, next_id, last, users, now, games>>

\* moderate_task from its UPDATE (WHERE id = ?) to return True
ModerateUpdate(c) ==
    LET call == calls[c] IN
    /\ call.pc = "selected"
    /\ tasks' = {IF t.id = call.task_id THEN Moderated(t, call.action) ELSE t : t \in tasks}
    /\ calls' = [calls EXCEPT ![c] = [call EXCEPT !.pc = "returned", !.ok = TRUE]]
    /\ UNCHANGED <<user_games, next_id, last, users, now, games>>

Call(event, task_id, user_id, result) ==
    /\ tasks' = result.rows
    /\ last' = Returned(event, task_id, 0, result.ok)
    /\ UNCHANGED <<user_games, users, now, games, calls>>

AddBaseTask(category, gender, text, game_mode) ==
    /\ next_id <= MaxTasks
    /\ Call("add_base_task", next_id, 0, add_base_task(next_id, category, gender, text, game_mode))
    /\ next_id' = next_id + 1

AddCustomTask(category, gender, text, game_mode, user_id) ==
    /\ next_id <= MaxTasks
    /\ Call("add_custom_task", next_id, user_id,
            add_custom_task(next_id, text, category, gender, game_mode, user_id))
    /\ next_id' = next_id + 1

SubmitTaskForModeration(task_id) ==
    /\ Call("submit_task_for_moderation", task_id, 0, submit_task_for_moderation(task_id))
    /\ UNCHANGED next_id

ModerateTask(task_id, action) ==
    /\ Call("moderate_task", task_id, 0, moderate_task(task_id, action))
    /\ UNCHANGED next_id

\* a handler's call of the store, with the answer it edits into the chat
Answer(event, task_id, result, reply) ==
    /\ tasks' = result.rows
    /\ last' = [Returned(event, task_id, 0, result.ok) EXCEPT !.reply = reply]
    /\ UNCHANGED <<user_games, users, now, games, calls>>

HandleSubmitModeration(task_id, user_id) ==
    /\ Call("handle_submit_moderation", task_id, user_id,
            handle_submit_moderation(task_id, user_id))
    /\ UNCHANGED next_id

HandleModerateTask(task_id, action, user_id) ==
    /\ Call("handle_moderate_task", task_id, user_id,
            handle_moderate_task(task_id, action, user_id))
    /\ UNCHANGED next_id

HandleConfirmDelete(task_id, user_id) ==
    /\ Answer("handle_confirm_delete", task_id,
              handle_confirm_delete(task_id, user_id),
              handle_confirm_delete_reply(task_id, user_id))
    /\ UNCHANGED next_id

SkipTaskForModeration(task_id) ==
    LET t == get_task_by_id(task_id) IN
    /\ HasRow(task_id)
    /\ (t.is_custom /\ t.moderation_status = "pending") =>
           MaxPendingOrder(t.game_mode, t.category, t.gender) < MaxOrder
    /\ Call("skip_task_for_moderation", task_id, 0,
            skip_task_for_moderation(task_id, t.game_mode, t.category, t.gender))
    /\ UNCHANGED next_id

DeleteCustomTask(task_id, user_id) ==
    /\ Call("delete_custom_task", task_id, user_id, delete_custom_task(task_id, user_id))
    /\ UNCHANGED next_id

DeleteBaseTask(task_id) ==
    /\ Call("delete_base_task", task_id, 0, delete_base_task(task_id))
    /\ UNCHANGED next_id

UpdateBaseTask(task_id, new_text, category, gender) ==
    /\ Call("update_base_task", task_id, 0, update_base_task(task_id, new_text, category, gender))
    /\ UNCHANGED next_id

Ids(list) == [i \in 1..Len(list) |-> list[i].id]

FetchExtended(category, gender, game_type, user_id) ==
    /\ last' = [Returned("get_extended_tasks_by_type", 0, user_id, TRUE) EXCEPT
                   !.partition = <<game_type, category, gender>>,
                   !.fetched = Ids(get_extended_tasks_by_type(category, gender, game_type, user_id))]
    /\ UNCHANGED <<user_games, tasks, next_id, users, now, games, calls>>

(************************** users table calls *****************************)

\* a call on the users table; the UPDATEs return rowcount > 0
UserCall(event, user_id, table) ==
    /\ users' = table
    /\ last' = Returned(event, 0, user_id, users[user_id].present)
    /\ UNCHANGED <<user_games, tasks, next_id, now, games, calls>>

AddUser(user_id) ==
    /\ users' = add_user(users, user_id)
    /\ last' = Returned("add_user", 0, user_id, TRUE)
    /\ UNCHANGED <<user_games, tasks, next_id, now, games, calls>>

SetOwner(user_id, flag) == UserCall("set_owner", user_id, set_owner(users, user_id, flag))

SetAdmin(user_id, flag) == UserCall("set_admin", user_id, set_admin(users, user_id, flag))

SetModerator(user_id, flag) ==
    UserCall("set_moderator", user_id, set_moderator(users, user_id, flag))

AddAdministrator(user_id, level) ==
    UserCall("add_administrator", user_id, add_administrator(users, user_id, level))

(*************************** guarded events *******************************)

\* the callbacks handle_admin_action is given
ModerationData == {"admin_moderation", "mod_mode", "mod_cat"}

ManagementData ==
    {"admin_administrators", "admin_add_admin", "admin_remove_admin", "admin_users",
     "admin_confirm_block", "admin_unblock_user", "admin_cleanup"}

AdminData == ModerationData \cup ManagementData

AdminOutcome(table, reply) == [table |-> table, reply |-> reply]

\* the check handle_admin_action makes on data
ActionAllowed(table, data, user_id) ==
    IF data = "admin_moderation" THEN has_moderation_access(table, user_id)
    ELSE IF data \in {"admin_administrators", "admin_users", "admin_cleanup"}
    THEN can_manage_administrators(table, user_id)
    ELSE has_admin_access(table, user_id)

\* the check of the handler data is dispatched to
HandlerAllowed(table, data, user_id) ==
    IF data = "admin_moderation" THEN has_moderation_access(table, user_id)
    ELSE IF data \in {"admin_administrators", "admin_add_admin"}
    THEN can_manage_administrators(table, user_id)
    ELSE IF data \in {"admin_users", "admin_cleanup", "admin_remove_admin",
                      "admin_confirm_block", "admin_unblock_user"}
    THEN is_owner(table, user_id)
    ELSE TRUE

\* target and days are the user id and the duration that data carries
handle_admin_action(table, data, user_id, target, days) ==
    IF ~ActionAllowed(table, data, user_id) THEN AdminOutcome(table, "access_denied")
    ELSE IF ~HandlerAllowed(table, data, user_id) THEN AdminOutcome(table, "access_denied")
    ELSE IF data = "admin_confirm_block"
    THEN AdminOutcome(block_user(table, target, days), data)
    ELSE IF data = "admin_unblock_user"
    THEN AdminOutcome(unblock_user(table, target), data)
    ELSE IF data = "admin_remove_admin" THEN AdminOutcome(table, "error")
    ELSE AdminOutcome(table, data)

\* the text "@username level" sent by user_id
handle_add_admin_command(table, user_id, target, level) ==
    IF ~can_manage_administrators(table, user_id) THEN AdminOutcome(table, "menu_hint")
    ELSE IF ~table[target].present THEN AdminOutcome(table, "user_not_found")
    ELSE IF db_is_admin(table, target) THEN AdminOutcome(table, "already_admin")
    ELSE AdminOutcome(add_administrator(table, target, level), "admin_added")

\* what button_handler and message_handler leave in `last`
Pressed(data, user_id, reply, drawn) ==
    [Returned(data, 0, user_id, reply \notin {"blocked", "access_denied"}) EXCEPT
        !.reply = reply, !.drawn = drawn]

\* button_handler for a callback of the game: the block check, ensure_owner_rights,
\* then the handler of data
ButtonHandler(chat, user_id, data, outcomes) ==
    IF is_user_blocked(users, user_id)
    THEN /\ last' = Pressed(data, user_id, "blocked", NotCalled)
         /\ UNCHANGED <<user_games, tasks, next_id, users, now, games, calls>>
    ELSE \E o \in outcomes :
            /\ SetGame(chat, o.game)
            /\ users' = ensure_owner_rights(users, user_id)
            /\ last' = Pressed(data, user_id, o.reply, o.drawn)
            /\ UNCHANGED <<tasks, next_id, now, games, calls>>

\* button_handler for a callback of the admin panel
AdminButton(user_id, data, target, days) ==
    IF is_user_blocked(users, user_id)
    THEN /\ last' = Pressed(data, user_id, "blocked", NotCalled)
         /\ UNCHANGED <<user_games, tasks, next_id, users, now, games, calls>>
    ELSE LET o == handle_admin_action(ensure_owner_rights(users, user_id), data, user_id,
                                      target, days)
         IN  /\ users' = o.table
             /\ last' = Pressed(data, user_id, o.reply, NotCalled)
             /\ UNCHANGED <<user_games, tasks, next_id, now, games, calls>>

\* the command /start
StartCommand(user_id) ==
    IF is_user_blocked(users, user_id)
    THEN /\ last' = Pressed("start", user_id, "blocked", NotCalled)
         /\ UNCHANGED <<user_games, tasks, next_id, users, now, games, calls>>
    ELSE /\ users' = ensure_owner_rights(add_user(users, user_id), user_id)
         /\ last' = Pressed("start", user_id, "welcome", NotCalled)
         /\ UNCHANGED <<user_games, tasks, next_id, now, games, calls>>

\* the callback start_game_setup is an entry point of game_conv_handler, which is
\* registered before button_handler: handle_start_game_setup runs, button_handler not
StartGameSetupEntry(chat, user_id) ==
    /\ SetGame(chat, NewGame(<<>>, FALSE, "game_type", None, None))
    /\ last' = Pressed("start_game_setup", user_id, "type_menu", NotCalled)
    /\ UNCHANGED <<tasks, next_id, users, now, games, calls>>

ButtonGameType(chat, user_id, game_type) ==
    LET g == user_games[chat] IN
    ButtonHandler(chat, user_id, "game_type",
        {Outcome(IF InGames(chat)
                 THEN [g EXCEPT !.game_type = game_type, !.setup_step = "mode"]
                 ELSE g,
                 "mode_menu", NotCalled)})

ButtonQuickStart(chat, user_id, game_type) ==
    LET saved_game_mode == IF InGames(chat) THEN user_games[chat].game_mode ELSE None
        game_mode == IF saved_game_mode = None THEN "basic" ELSE saved_game_mode
    IN  ButtonHandler(chat, user_id, "quick_start",
            {Outcome(NewGame(Roster(game_type), TRUE, "completed", game_mode, game_type),
                     "quick_start", NotCalled)})

ButtonGameMode(chat, user_id, mode) ==
    LET g == user_games[chat] IN
    ButtonHandler(chat, user_id, "game_mode",
        IF InGames(chat)
        THEN {Outcome([g EXCEPT !.game_mode = mode, !.setup_step = "names"],
                      "names_prompt", NotCalled)}
        ELSE {Outcome(g, "error", NotCalled)})

ButtonTaskCompleted(chat, user_id, cap) ==
    /\ TurnAllowed(chat, cap)
    /\ ButtonHandler(chat, user_id, "task_completed",
                     handle_task_completed(user_games[chat], user_id))

\* message_handler for a text of `count` comma-separated names: no block check
NamesMessage(chat, user_id, count) ==
    LET g == user_games[chat] IN
    \E o \in IF ~(InGames(chat) /\ g.setup_step = "names")
              THEN {Outcome(g, "menu_hint", NotCalled)}
              ELSE IF count # ExpectedCount(g.game_type)
              THEN {Outcome(g, "names_error", NotCalled)}
              ELSE IF ~validate_players_for_mode(NamedPlayers(count, g.game_type), g.game_type)
              THEN {Outcome(g, "names_error", NotCalled)}
              ELSE {Outcome([g EXCEPT !.players = NamedPlayers(count, g.game_type)],
                            "players_confirm", NotCalled)} :
        /\ SetGame(chat, o.game)
        /\ users' = ensure_owner_rights(users, user_id)
        /\ last' = Pressed("names", user_id, o.reply, NotCalled)
        /\ UNCHANGED <<tasks, next_id, now, games, calls>>

\* the dict handle_btask_add stores under the chat's key of user_games: it has
\* the keys setup_step and task_data only, the other fields read as absent
EditorState(setup_step, mode_key, category_key, gender) ==
    [NoGame EXCEPT !.kind = "editor", !.setup_step = setup_step] @@
    [task_data |-> [mode_key |-> mode_key, category_key |-> category_key,
                    gender |-> gender]]

\* button_handler for btask_add_<mode>_<category>_<gender>: handle_admin_action
\* tests has_admin_access, handle_base_task_action tests is_admin
ButtonBtaskAdd(chat, user_id, mode_key, category_key, gender) ==
    LET table == ensure_owner_rights(users, user_id) IN
    ButtonHandler(chat, user_id, "btask_add",
        IF has_admin_access(table, user_id) /\ is_admin(table, user_id)
        THEN {Outcome(EditorState("add_base_task", mode_key, category_key, gender),
                      "text_prompt", NotCalled)}
        ELSE {Outcome(user_games[chat], "access_denied", NotCalled)})

\* message_handler for a text while setup_step is 'add_base_task':
\* handle_add_base_task_text adds the task and deletes the chat's key
AddBaseTaskText(chat, user_id, text, cap) ==
    LET g == user_games[chat] IN
    /\ g.kind = "editor"
    /\ g.setup_step = "add_base_task"
    /\ next_id <= cap
    /\ tasks' = add_base_task(next_id, g.task_data.category_key, g.task_data.gender,
                              text, g.task_data.mode_key).rows
    /\ next_id' = next_id + 1
    /\ SetGame(chat, NoGame)
    /\ users' = ensure_owner_rights(users, user_id)
    /\ last' = Pressed("add_base_task_text", user_id, "task_added", NotCalled)
    /\ UNCHANGED <<now, games, calls>>

ButtonEndGame(chat, user_id) ==
    ButtonHandler(chat, user_id, "end_game", {Outcome(NoGame, "main_menu", NotCalled)})

\* message_handler for the text "@username level": no block check
GrantMessage(chat, user_id, target, level) ==
    LET g == user_games[chat]
        o == IF InGames(chat) /\ g.setup_step = "names"
             THEN AdminOutcome(ensure_owner_rights(users, user_id), "names_error")
             ELSE handle_add_admin_command(ensure_owner_rights(users, user_id), user_id,
                                           target, level)
    IN  /\ users' = o.table
        /\ last' = Pressed("grant", user_id, o.reply, NotCalled)
        /\ UNCHANGED <<user_games, tasks, next_id, now, games, calls>>

\* a day passes
Tick ==
    /\ now < MaxTime
    /\ now' = now + 1
    /\ UNCHANGED <<user_games, tasks, next_id, last, users, games, calls>>

(*************************** specifications *******************************)

NoEvent == Returned(None, 0, 0, FALSE)

Init ==
    /\ user_games = [chat \in Chats |-> NoGame]
    /\ tasks = {}
    /\ next_id = 1
    /\ last = NoEvent
    /\ users = KnownUsers
    /\ now = 0
    /\ games = <<>>
    /\ calls = [c \in Connections |-> NoCall]

\* The tasks table outlives the bot (bot.db): a game may find these rows, which
\* earlier add_base_task, add_custom_task, submit and moderate calls left there.
SeedTasks ==
    {Row(1, "a", "acquaintance", "male", "2couples", "base", FALSE, 0, TRUE, "approved"),
     Row(2, "a", "acquaintance", "common", "2couples", "base", FALSE, 0, TRUE, "approved"),
     Row(3, "a", "acquaintance", "common", "2couples", "user_approved", TRUE, 1, TRUE, "approved"),
     Row(4, "a", "acquaintance", "male", "2couples", "user_pending", TRUE, 2, FALSE, "rejected")}

InitSeeded ==
    /\ user_games = [chat \in Chats |-> NoGame]
    /\ tasks = SeedTasks
    /\ next_id = Cardinality(SeedTasks) + 1
    /\ last = NoEvent
    /\ users = KnownUsers
    /\ now = 0
    /\ games = SeedGames
    /\ calls = [c \in Connections |-> NoCall]

\* the chat whose events Spec handles
GameChats == {1}

SetupTypes == {"2couples", "fmf"}

SetupEvent(chat) ==
    \/ StartGameSetup(chat)
    \/ \E game_type \in SetupTypes : HandleGameTypeSelection(chat, game_type)
    \/ \E mode \in GameModes : HandleGameModeSelection(chat, mode)
    \/ \E count \in {3, 4} : MessageHandler(chat, count)

PlayEvent(chat, user_id, cap) ==
    \/ \E game_type \in SetupTypes : QuickStartGame(chat, game_type)
    \/ StartGame(chat, user_id)
    \/ HandleTaskCompleted(chat, user_id, cap)
    \/ HandleSkipTask(chat, user_id, cap)
    \/ HandleNextCategory(chat, user_id)
    \/ HandleContinueCurrentCategory(chat, user_id)
    \/ HandleEndGame(chat)

Next ==
    \E chat \in GameChats :
        \/ SetupEvent(chat)
        \/ \E user_id \in Users : PlayEvent(chat, user_id, MaxTurns)

Spec == InitSeeded /\ [][Next]_vars

\* a game played on, long enough to reach the threshold of a category
NextThreshold ==
    \E chat \in GameChats, user_id \in Users : PlayEvent(chat, user_id, MaxCompleted)

SpecThreshold == InitSeeded /\ [][NextThreshold]_vars

\* a running game whose game type and mode are re-selected from earlier menus
NextRoster ==
    \E chat \in GameChats :
        \/ \E game_type \in SetupTypes : HandleGameTypeSelection(chat, game_type)
        \/ \E mode \in GameModes : HandleGameModeSelection(chat, mode)
        \/ \E user_id \in Users : PlayEvent(chat, user_id, MaxRosterTurns)

SpecRoster == InitSeeded /\ [][NextRoster]_vars

\* sessions started, saved, played and ended in both chats
NextGames ==
    \E chat \in Chats, user_id \in Users :
        \/ StartGameSetup(chat)
        \/ \E game_type \in SetupTypes : QuickStartGame(chat, game_type)
        \/ StartGame(chat, user_id)
        \/ HandleTaskCompleted(chat, user_id, MaxTurns)
        \/ HandleEndGame(chat)

SpecGames == InitSeeded /\ [][NextGames]_vars

\* the calls other chats make on the store
StoreCategories == {"acquaintance"}

StoreGenders == {"male", "common"}

StoreGameTypes == {"2couples"}

NextStore ==
    \/ \E c \in StoreCategories, g \in StoreGenders, m \in StoreGameTypes :
           AddBaseTask(c, g, "a", m)
    \/ \E c \in StoreCategories, g \in StoreGenders, m \in StoreGameTypes, u \in Users :
           AddCustomTask(c, g, "a", m, u)
    \/ \E id \in TaskIds : SubmitTaskForModeration(id)
    \/ \E id \in TaskIds, action \in {"approve", "reject"} : ModerateTask(id, action)
    \/ \E id \in TaskIds, u \in Users : HandleSubmitModeration(id, u)
    \/ \E id \in TaskIds, action \in {"approve", "reject"}, u \in Users :
           HandleModerateTask(id, action, u)
    \/ \E id \in TaskIds, u \in Users : DeleteCustomTask(id, u)
    \/ \E id \in TaskIds : DeleteBaseTask(id)
    \/ \E id \in TaskIds, c \in StoreCategories, g \in StoreGenders :
           UpdateBaseTask(id, "a", c, g)
    \/ \E c \in StoreCategories, g \in StoreGenders, m \in StoreGameTypes, u \in Users :
           FetchExtended(c, g, m, u)

SpecStore == Init /\ [][NextStore]_vars

\* the buttons of the task editor and of the moderation queue, pressed by
\* any user on any task id
NextAnswers ==
    \/ \E g \in StoreGenders : AddBaseTask("acquaintance", g, "a", "2couples")
    \/ \E g \in StoreGenders, u \in Users : AddCustomTask("acquaintance", g, "a", "2couples", u)
    \/ \E id \in TaskIds, u \in Users : HandleSubmitModeration(id, u)
    \/ \E id \in TaskIds, action \in {"approve", "reject"}, u \in Users :
           HandleModerateTask(id, action, u)
    \/ \E id \in TaskIds, u \in Users : HandleConfirmDelete(id, u)

SpecAnswers == Init /\ [][NextAnswers]_vars

\* the role calls on a users table that starts with the fixed row only
InitRoles ==
    /\ user_games = [chat \in Chats |-> NoGame]
    /\ tasks = {}
    /\ next_id = 1
    /\ last = NoEvent
    /\ users = FreshUsers
    /\ now = 0
    /\ games = <<>>
    /\ calls = [c \in Connections |-> NoCall]

NextRoles ==
    \/ \E u \in UserIds \ {OwnerId} : AddUser(u)
    \/ \E u \in UserIds, flag \in BOOLEAN : SetOwner(u, flag)
    \/ \E u \in UserIds, flag \in BOOLEAN : SetAdmin(u, flag)
    \/ \E u \in UserIds, flag \in BOOLEAN : SetModerator(u, flag)
    \/ \E u \in UserIds, level \in {"admin", "moderator"} : AddAdministrator(u, level)

SpecRoles == InitRoles /\ [][NextRoles]_vars

\* the users whose events SpecAccess handles, and the user the owner blocks
AccessUsers == {2, 3}

BlockTargets == {2}

BlockDays == {Forever} \cup (1..MaxDays)

NextAccess ==
    \/ \E u \in AccessUsers : StartCommand(u)
    \/ \E u \in AccessUsers, data \in AdminData, target \in BlockTargets, days \in BlockDays :
           AdminButton(u, data, target, days)
    \/ \E chat \in GameChats, u \in AccessUsers :
           \/ StartGameSetupEntry(chat, u)
           \/ ButtonGameType(chat, u, "2couples")
           \/ ButtonQuickStart(chat, u, "2couples")
           \/ ButtonGameMode(chat, u, "basic")
           \/ ButtonTaskCompleted(chat, u, MaxTurns)
           \/ NamesMessage(chat, u, 4)
           \/ \E target \in BlockTargets, level \in {"admin", "moderator"} :
                  GrantMessage(chat, u, target, level)
    \/ Tick

InitAccess ==
    /\ user_games = [chat \in Chats |-> NoGame]
    /\ tasks = SeedTasks
    /\ next_id = Cardinality(SeedTasks) + 1
    /\ last = NoEvent
    /\ users = FreshUsers
    /\ now = 0
    /\ games = SeedGames
    /\ calls = [c \in Connections |-> NoCall]

SpecAccess == InitAccess /\ [][NextAccess]_vars

\* base tasks among the calls that write moderation columns
NextBase ==
    \/ AddBaseTask("acquaintance", "male", "a", "2couples")
    \/ AddCustomTask("acquaintance", "male", "a", "2couples", 1)
    \/ \E id \in TaskIds :
           \/ SubmitTaskForModeration(id)
           \/ \E action \in {"approve", "reject"} : ModerateTask(id, action)
           \/ SkipTaskForModeration(id)
           \/ UpdateBaseTask(id, "b", "acquaintance", "male")

SpecBase == Init /\ [][NextBase]_vars

\* a store whose review queues are filled: three pending tasks of one partition,
\* one of another and a base task
SeedQueue ==
    {Row(1, "a", "acquaintance", "male", "2couples", "user_pending", TRUE, 1, FALSE, "pending"),
     Row(2, "a", "acquaintance", "male", "2couples", "user_pending", TRUE, 2, FALSE, "pending"),
     Row(3, "a", "acquaintance", "male", "2couples", "user_pending", TRUE, 1, FALSE, "pending"),
     Row(4, "a", "acquaintance", "common", "2couples", "user_pending", TRUE, 1, FALSE, "pending"),
     Row(5, "a", "acquaintance", "male", "2couples", "base", FALSE, 0, TRUE, "approved")}

InitQueue ==
    /\ user_games = [chat \in Chats |-> NoGame]
    /\ tasks = SeedQueue
    /\ next_id = Cardinality(SeedQueue) + 1
    /\ last = NoEvent
    /\ users = KnownUsers
    /\ now = 0
    /\ games = <<>>
    /\ calls = [c \in Connections |-> NoCall]

\* the moderators at work on the queues: every task may be skipped, a task of
\* each partition may be moderated and submitted again
NextQueue ==
    \/ \E id \in 1..Cardinality(SeedQueue) : SkipTaskForModeration(id)
    \/ \E id \in {2, 4} :
           \/ SubmitTaskForModeration(id)
           \/ \E action \in {"approve", "reject"} : ModerateTask(id, action)

SpecQueue == InitQueue /\ [][NextQueue]_vars

\* one moderate_task call of each connection, on the pending tasks of the
\* queues; nothing else writes the table meanwhile
NextRace ==
    \E c \in Connections :
        \/ \E id \in {1, 2, 4}, action \in {"approve", "reject"} : ModerateSelect(c, id, action)
        \/ ModerateUpdate(c)

SpecRace == InitQueue /\ [][NextRace]_vars

\* a base task of the pool of a game played to its end
LiveTask(id, category, gender) ==
    Row(id, "a", category, gender, "2couples", "base", FALSE, 0, TRUE, "approved")

\* a fixed pool: the seeded tasks of acquaintance, one task of fire for the
\* men and, when a category is named, three tasks more than the threshold in it
LivePool(category) ==
    SeedTasks
      \cup {LiveTask(CategoryThreshold + 8, "fire", "male")}
      \cup {LiveTask(4 + i, category, "common") : i \in 1..(CategoryThreshold + 3)}

\* a game of that pool in mid-play: tasks 1 and 2 were completed, the empty
\* categories passed, and one task less than the threshold completed in
\* `category`; the next task is on display
MidGame(category) ==
    [NewGame(Roster("2couples"), TRUE, "completed", "basic", "2couples") EXCEPT
        !.current_player_index = 1,
        !.current_category = category,
        !.used_tasks["acquaintance"]["male"] = <<1>>,
        !.used_tasks["acquaintance"]["common"] = <<2>>,
        !.used_tasks[category]["common"] = [i \in 1..(CategoryThreshold - 1) |-> 4 + i],
        !.tasks_completed_per_category["acquaintance"] = 2,
        !.tasks_completed_per_category[category] = CategoryThreshold - 1,
        !.current_task = LiveTask(4 + CategoryThreshold, category, "common")]

\* a game not yet set up, or one in mid-play in one of the last two categories
InitLive ==
    /\ \E category \in {None, "prelude", "fire"} :
          IF category = None
          THEN /\ tasks = SeedTasks \cup {LiveTask(CategoryThreshold + 8, "fire", "male")}
               /\ user_games = [chat \in Chats |-> NoGame]
               /\ last = NoEvent
          ELSE /\ tasks = LivePool(category)
               /\ user_games = [chat \in Chats |->
                                   IF chat \in GameChats THEN MidGame(category) ELSE NoGame]
               /\ last = Shown(1, "task", 4 + CategoryThreshold)
    /\ next_id = CategoryThreshold + 9
    /\ users = KnownUsers
    /\ now = 0
    /\ games = SeedGames
    /\ calls = [c \in Connections |-> NoCall]

\* the players press the buttons of the message on display: a task is
\* completed or skipped, the next category is taken whenever it is offered,
\* and the current one is continued when it is not
NextLive ==
    \E chat \in GameChats, user_id \in Users :
        \/ ~InGames(chat) /\ QuickStartGame(chat, "2couples")
        \/ last.reply = "quick_start" /\ StartGame(chat, user_id)
        \/ last.reply = "task" /\ HandleTaskCompleted(chat, user_id, Cardinality(tasks) + 1)
        \/ last.reply = "task" /\ HandleSkipTask(chat, user_id, Cardinality(tasks) + 1)
        \/ /\ \/ last.reply = "next_category_modal"
              \/ last.reply = "threshold" /\ can_move_to_next_category(user_games[chat])
           /\ HandleNextCategory(chat, user_id)
        \/ /\ last.reply = "threshold"
           /\ ~can_move_to_next_category(user_games[chat])
           /\ HandleContinueCurrentCategory(chat, user_id)

\* every update the players send is handled
SpecLive == InitLive /\ [][NextLive]_vars /\ WF_vars(NextLive)

\* a game and the editor of base tasks in the same chat
NextEditor ==
    \/ \E u \in AccessUsers : StartCommand(u)
    \/ \E chat \in GameChats, u \in AccessUsers :
           \/ StartGameSetupEntry(chat, u)
           \/ ButtonQuickStart(chat, u, "2couples")
           \/ ButtonEndGame(chat, u)
           \/ \E m \in StoreGameTypes, c \in StoreCategories, g \in StoreGenders :
                  ButtonBtaskAdd(chat, u, m, c, g)
           \/ AddBaseTaskText(chat, u, "a", Cardinality(SeedTasks) + MaxTasks)

SpecEditor == InitAccess /\ [][NextEditor]_vars

(******************************* claims ***********************************)

\* C1: after any sequence of session events on a chat, a session that has a
\* roster keeps 0 <= current_player_index < number of players of the roster.
C1_IndexWithinRoster ==
    \A chat \in Chats :
        LET g == user_games[chat] IN
        (InGames(chat) /\ g.players # <<>>) =>
            (g.current_player_index >= 0 /\ g.current_player_index < Len(g.players))

\* C2: in every reachable session state, for every category and every bucket,
\* used_tasks[category][bucket] holds no task id more than once.
C2_UsedTasksHaveNoDuplicates ==
    \A chat \in Chats, c \in CategorySet, b \in Buckets :
        LET used == user_games[chat].used_tasks[c][b] IN
        \A i, j \in 1..Len(used) : used[i] = used[j] => i = j

\* the task get_next_task has just returned is not in the used set of the
\* bucket it was filtered against
C3_DrawnTaskIsUnused ==
    \A chat \in GameChats :
        LET g == user_games[chat]
            bucket == IF g.current_task.gender = "common" THEN "common" ELSE CurrentPlayer(g)
            used == g.used_tasks[g.current_category][bucket]
        IN  last.reply = "task" =>
                /\ g.current_task.id = last.drawn
                /\ \A i \in 1..Len(used) : used[i] # last.drawn

\* within a session a used set only grows, except that the category advance
\* empties the used sets of the category it enters
C3_UsedResetOnlyOnAdvance ==
    \A chat \in GameChats :
        LET before == user_games[chat]
            after == user_games'[chat]
            same_session ==
                /\ before.kind = "game"
                /\ after.kind = "game"
                /\ after # NewGame(after.players, after.is_game_started, after.setup_step,
                                   after.game_mode, after.game_type)
        IN  (same_session /\ after.used_tasks # before.used_tasks) =>
                \A c \in CategorySet, b \in Buckets :
                    LET old == before.used_tasks[c][b]
                        new == after.used_tasks[c][b]
                    IN  \/ Len(old) <= Len(new) /\ SubSeq(new, 1, Len(old)) = old
                        \/ /\ new = <<>>
                           /\ c = after.current_category
                           /\ after.current_category # before.current_category

C4_ThresholdSignalled ==
    [][\A chat \in GameChats :
           LET before == user_games[chat]
               after == user_games'[chat]
               category == before.current_category
               count == after.tasks_completed_per_category[category]
           IN  (/\ before.kind = "game"
                /\ after.kind = "game"
                /\ count = before.tasks_completed_per_category[category] + 1) =>
                   IF count >= 20
                   THEN /\ last'.reply = "threshold"
                        /\ last'.drawn = NotCalled
                        /\ after.current_category = category
                        /\ after.current_task = before.current_task
                   ELSE /\ last'.reply \in {"task", "next_category_modal", "game_complete"}
                        /\ last'.drawn # NotCalled
                        /\ after.current_category = category]_vars

\* the twentieth completion of a category was answered with the threshold signal
C4_Witness ==
    /\ last.reply = "threshold"
    /\ \E chat \in GameChats :
           LET g == user_games[chat] IN
           g.tasks_completed_per_category[g.current_category] = 20

\* the rows eligible for the session's mode, category, game type and acting player
C5_Eligible(g, user_id) ==
    {t \in tasks :
        /\ t.game_mode = g.game_type
        /\ t.category = g.current_category
        /\ t.gender \in {CurrentPlayer(g), "common"}
        /\ IF g.game_mode = "basic"
           THEN t.task_type = "base" /\ t.is_public
           ELSE \/ t.task_type = "base" /\ t.is_public
                \/ /\ t.is_custom
                   /\ (t.moderation_status = "approved" \/ t.created_by = user_id)}

C5_Unused(g, user_id) ==
    {t \in C5_Eligible(g, user_id) :
        LET used == g.used_tasks[g.current_category][t.gender] IN
        \A i \in 1..Len(used) : used[i] # t.id}

\* C5: get_next_task returns None exactly when every eligible task of the
\* acting player's gender and every eligible common task is in the used sets,
\* and otherwise returns one of the unused eligible tasks.
C5_NoneIffPoolExhausted ==
    \A chat \in GameChats :
        LET g == user_games[chat]
            unused == C5_Unused(g, last.user_id)
        IN  last.drawn # NotCalled =>
                /\ (last.drawn = 0) <=> (unused = {})
                /\ (last.drawn # 0) => (last.drawn \in {t.id : t \in unused})

\* get_next_task returned None for a player whose pool is not empty but all used
C5_Witness ==
    /\ last.drawn = 0
    /\ \E chat \in GameChats : C5_Eligible(user_games[chat], last.user_id) # {}

\* C6: moderate (approve or reject) succeeds only on a custom task whose status
\* is pending; on any other task it returns failure and leaves the table as it was.
C6_ModerateOnlyPending ==
    [][last'.event \in {"moderate_task", "handle_moderate_task"} =>
           LET id == last'.task_id
               t == get_task_by_id(id)
               pending == HasRow(id) /\ t.is_custom /\ t.moderation_status = "pending"
           IN  /\ last'.ok => pending
               /\ ~pending => (~last'.ok /\ tasks' = tasks)]_vars

\* moderate_task was called on an approved custom task and returned failure
C6_Witness ==
    /\ last.event = "moderate_task"
    /\ ~last.ok
    /\ HasRow(last.task_id)
    /\ get_task_by_id(last.task_id).is_custom
    /\ get_task_by_id(last.task_id).moderation_status = "approved"

\* C7: submit_task_for_moderation on a custom task whose status is approved
\* returns failure and leaves the task approved.
C7_ApprovedIsNotResubmitted ==
    [][last'.event = "submit_task_for_moderation" =>
           LET id == last'.task_id
               t == get_task_by_id(id)
           IN  (HasRow(id) /\ t.is_custom /\ t.moderation_status = "approved") =>
                   (~last'.ok /\ tasks' = tasks)]_vars

\* C8: submit_task_for_moderation on a draft or rejected custom task succeeds
\* and sets its status to pending; a second submit of the same task, with no
\* moderation in between, returns failure and changes nothing.
C8_SecondSubmitFails ==
    [][last'.event = "submit_task_for_moderation" =>
           LET id == last'.task_id
               t == get_task_by_id(id)
               first == HasRow(id) /\ t.is_custom /\ t.moderation_status \in {"draft", "rejected"}
               again == HasRow(id) /\ t.is_custom /\ t.moderation_status = "pending"
               in_a_row == /\ last.event = "submit_task_for_moderation"
                           /\ last.task_id = id
                           /\ last.ok
           IN  /\ first => /\ last'.ok
                           /\ tasks' = (tasks \ {t}) \cup {[t EXCEPT !.moderation_status = "pending"]}
               /\ again => (~last'.ok /\ tasks' = tasks)
               /\ in_a_row => (~last'.ok /\ tasks' = tasks)]_vars

\* a submit of a pending custom task returned failure
C8_Witness ==
    /\ last.event = "submit_task_for_moderation"
    /\ ~last.ok
    /\ HasRow(last.task_id)
    /\ get_task_by_id(last.task_id).is_custom
    /\ get_task_by_id(last.task_id).moderation_status = "pending"

\* C9: the extended fetch of a partition for requester R never returns a custom
\* task that is rejected and owned by another user, and returns every custom
\* task of the partition owned by R whose status is draft or pending.
C9_ExtendedFetchVisibility ==
    last.event = "get_extended_tasks_by_type" =>
        LET fetched == {last.fetched[i] : i \in 1..Len(last.fetched)} IN
        \A t \in tasks :
            /\ (t.is_custom /\ t.moderation_status = "rejected" /\ t.created_by # last.user_id)
                   => t.id \notin fetched
            /\ (/\ t.is_custom
                /\ <<t.game_mode, t.category, t.gender>> = last.partition
                /\ t.created_by = last.user_id
                /\ t.moderation_status \in {"draft", "pending"})
                   => t.id \in fetched

\* a fetch of a partition that holds another user's rejected task and a draft
\* or pending task of the requester
C9_Witness ==
    /\ last.event = "get_extended_tasks_by_type"
    /\ \E t \in tasks :
           /\ <<t.game_mode, t.category, t.gender>> = last.partition
           /\ t.is_custom
           /\ t.moderation_status = "rejected"
           /\ t.created_by # last.user_id
    /\ \E t \in tasks :
           /\ <<t.game_mode, t.category, t.gender>> = last.partition
           /\ t.is_custom
           /\ t.moderation_status \in {"draft", "pending"}
           /\ t.created_by = last.user_id

\* C10: in basic mode every task drawn is an approved base, non-custom row whose
\* category, gender (the acting player's or common) and game type are the session's.
C10_BasicDrawsBaseOnly ==
    \A chat \in GameChats :
        LET g == user_games[chat]
            t == g.current_task
        IN  (last.reply = "task" /\ g.game_mode = "basic") =>
                /\ t.id = last.drawn
                /\ t \in tasks
                /\ t.task_type = "base"
                /\ ~t.is_custom
                /\ t.moderation_status = "approved"
                /\ t.category = g.current_category
                /\ t.gender \in {CurrentPlayer(g), "common"}
                /\ t.game_mode = g.game_type

\* a basic-mode draw from a partition that also holds an approved custom task
C10_Witness ==
    /\ last.reply = "task"
    /\ \E chat \in GameChats :
           LET g == user_games[chat] IN
           /\ g.game_mode = "basic"
           /\ \E t \in tasks :
                  /\ t.is_custom
                  /\ t.moderation_status = "approved"
                  /\ t.category = g.current_category
                  /\ t.gender \in {CurrentPlayer(g), "common"}
                  /\ t.game_mode = g.game_type

\* C13: a user whose identity is the reserved owner (the user named mpr_xo, and
\* the id of the fixed row) resolves to rank owner in every state: with no row,
\* with a row that carries no role flag, after any role-changing calls
C13_ReservedIsOwner ==
    /\ \A u \in UserIds : Username(u) = "mpr_xo" => rank(users, u) = "owner" /\ is_owner(users, u)
    /\ get_admin_level(users, OwnerId) = "owner"
    /\ db_is_owner(users, OwnerId)

\* the reserved users' rows carry no role flag
C13_Witness ==
    /\ users[3].present /\ ~users[3].is_owner /\ ~users[3].is_admin /\ ~users[3].is_moderator
    /\ ~users[OwnerId].is_owner /\ ~users[OwnerId].is_admin
    /\ last.event = "set_admin"

\* C14: for a user who is not reserved, rank is owner if the owner flag is set,
\* else admin if the admin flag is set, else moderator if the moderator flag is
\* set, else user; a user with no row has rank user
C14_RankByPrecedence ==
    \A u \in UserIds :
        (u # OwnerId /\ Username(u) # "mpr_xo") =>
            LET row == users[u] IN
            /\ ~row.present => rank(users, u) = "user"
            /\ row.present =>
                /\ row.is_owner => rank(users, u) = "owner"
                /\ (~row.is_owner /\ row.is_admin) => rank(users, u) = "admin"
                /\ (~row.is_owner /\ ~row.is_admin /\ row.is_moderator) => rank(users, u) = "moderator"
                /\ (~row.is_owner /\ ~row.is_admin /\ ~row.is_moderator) => rank(users, u) = "user"

\* a user with all three flags set, another with the moderator flag only
C14_Witness ==
    /\ users[2].present /\ users[2].is_owner /\ users[2].is_admin /\ users[2].is_moderator
    /\ users[1].present /\ ~users[1].is_owner /\ ~users[1].is_admin /\ users[1].is_moderator

C11_BlockedIsDenied ==
    [][(now' = now /\ last'.user_id \in UserIds /\ is_user_blocked(users, last'.user_id))
          => UNCHANGED <<user_games, tasks, users>>]_vars

\* C12: an unblocked user with the moderator flag only is let into the moderation
\* queue (admin_moderation, then the pending tasks of a mode and category) and is
\* denied the user-management callbacks, which leave the users table as it was
C12_ModeratorReachesQueueOnly ==
    [][LET u == last'.user_id IN
       (/\ now' = now
        /\ last'.event \in AdminData
        /\ rank(users, u) = "moderator"
        /\ ~is_user_blocked(users, u))
          => /\ last'.event \in ModerationData => last'.reply = last'.event
             /\ last'.event \in ManagementData =>
                    last'.reply = "access_denied" /\ users' = users]_vars

\* C16: is_user_blocked is false for a user with no row or not blocked, true for
\* a user blocked with no end, and for a user blocked until T it is true exactly
\* while now is strictly before T
C16_BlockedUntilStrict ==
    \A u \in UserIds :
        LET row == users[u] IN
        /\ (~row.present \/ ~row.is_blocked) => ~is_user_blocked(users, u)
        /\ (row.present /\ row.is_blocked /\ row.blocked_until = Forever) =>
               is_user_blocked(users, u)
        /\ (row.present /\ row.is_blocked /\ row.blocked_until # Forever) =>
               (is_user_blocked(users, u) <=> now < row.blocked_until)

\* the block of a user ends now: the row is still marked blocked
C16_Witness ==
    \E u \in UserIds :
        /\ users[u].is_blocked
        /\ users[u].blocked_until = now
        /\ last.reply = "blocked"

\* C17: each completion or skip moves the turn to the next player of the roster:
\* the new current_player_index is (old index + 1) modulo the number of players
C17_TurnAdvancesRoundRobin ==
    [][\A chat \in Chats :
          LET g == user_games[chat]
              h == user_games'[chat]
          IN  (/\ g.kind = "game" /\ h.kind = "game"
               /\ g.players # <<>>
               /\ TotalCompleted(h) = TotalCompleted(g) + 1)
                 => h.current_player_index = (g.current_player_index + 1) % Len(g.players)]_vars

\* C18: a category advance from a category that is not the last sets
\* current_category to the next category of acquaintance, flirt, prelude, fire,
\* empties that category's used sets and zeroes its counter, and leaves the
\* roster, the turn pointer, the mode, the game type and the used sets and
\* counters of the other categories as they were
C18_AdvanceFrame ==
    [][\A chat \in Chats :
          LET g == user_games[chat]
              h == user_games'[chat]
              k == CategoryIndex(g.current_category)
          IN  (/\ g.kind = "game" /\ h.kind = "game"
               /\ CategoryIndex(h.current_category) > k)
                 => /\ h.current_category = Categories[k + 1]
                    /\ h.used_tasks[h.current_category] = NoUsed
                    /\ h.tasks_completed_per_category[h.current_category] = 0
                    /\ h.players = g.players
                    /\ h.current_player_index = g.current_player_index
                    /\ h.game_mode = g.game_mode
                    /\ h.game_type = g.game_type
                    /\ \A c \in CategorySet \ {h.current_category} :
                           /\ h.used_tasks[c] = g.used_tasks[c]
                           /\ h.tasks_completed_per_category[c] =
                                  g.tasks_completed_per_category[c]]_vars

\* a session that advanced to flirt after a completion in acquaintance
C18_Witness ==
    \E chat \in Chats :
        LET g == user_games[chat] IN
        /\ g.kind = "game"
        /\ g.current_category = "flirt"
        /\ g.tasks_completed_per_category["acquaintance"] = 1
        /\ g.used_tasks["acquaintance"] # NoUsed
        /\ g.current_player_index = 1
        /\ TotalCompleted(g) = 1

\* C19: a category advance received by a session that is in the last category
\* (fire) is answered with game-complete and leaves the session's category,
\* used sets and counters as they were
C19_AdvanceAtLastCategory ==
    [][\A chat \in GameChats, user_id \in Users :
          LET g == user_games[chat]
              h == user_games'[chat]
          IN  (/\ g.kind = "game"
               /\ g.current_category = Categories[Len(Categories)]
               /\ HandleNextCategory(chat, user_id))
                 => /\ last'.reply = "game_complete"
                    /\ h.current_category = g.current_category
                    /\ h.used_tasks = g.used_tasks
                    /\ h.tasks_completed_per_category = g.tasks_completed_per_category]_vars

\* C20: in every session state a skip and a completion leave the same session
\* (used sets, completed counters, turn pointer) and take the same decision
\* (threshold reached, or the next draw)
C20_SkipIsCompletion ==
    \A chat \in Chats, user_id \in Users :
        handle_skip_task(user_games[chat], user_id) =
            handle_task_completed(user_games[chat], user_id)

\* a session one task short of the threshold: the skip is the task that reaches it
C20_Witness ==
    \E chat \in Chats :
        LET g == user_games[chat] IN
        /\ g.kind = "game"
        /\ g.current_task # NoTask
        /\ g.tasks_completed_per_category[g.current_category] = CategoryThreshold - 1
        /\ \E o \in handle_skip_task(g, 1) :
               /\ o.reply = "threshold"
               /\ o.game.tasks_completed_per_category[g.current_category] = CategoryThreshold

\* C21: an end-game event removes the chat's session entirely; a chat without a
\* session answers a complete, skip or category-advance event with 'game not
\* found' and no session is created or changed
C21_EndDiscardsSession ==
    [][\A chat \in GameChats :
          /\ HandleEndGame(chat) => user_games'[chat] = NoGame
          /\ \A user_id \in Users :
                 (/\ ~InGames(chat)
                  /\ \/ HandleTaskCompleted(chat, user_id, MaxTurns)
                     \/ HandleSkipTask(chat, user_id, MaxTurns)
                     \/ HandleNextCategory(chat, user_id))
                    => last'.reply = "game_not_found" /\ user_games' = user_games]_vars

\* an event was answered 'game not found' and no chat has a session
C21_Witness ==
    /\ last.reply = "game_not_found"
    /\ \A chat \in Chats : user_games[chat] = NoGame

\* C22: a chat has at most one session: starting a session replaces the chat's
\* session with a fresh one (turn pointer 0, first category, empty used sets,
\* zero counters), and the games table never holds two active rows of a chat
C22_OneActiveSession ==
    [][/\ \A chat \in Chats :
             (\/ StartGameSetup(chat)
              \/ \E game_type \in SetupTypes : QuickStartGame(chat, game_type))
                => LET h == user_games'[chat] IN
                   /\ h.kind = "game"
                   /\ h.current_player_index = 0
                   /\ h.current_category = Categories[1]
                   /\ h.used_tasks = [c \in CategorySet |-> NoUsed]
                   /\ h.tasks_completed_per_category = [c \in CategorySet |-> 0]
                   /\ h.current_task = NoTask
       /\ \A chat \in Chats :
             Cardinality({i \in 1..Len(games') : /\ games'[i].chat_id = chat
                                                 /\ games'[i].is_active}) <= 1]_vars

\* chat 2 saved a game, then chat 1 saved one over the row it had, and a new
\* session then replaced the played one of chat 1
C22_Witness ==
    /\ games = <<GameRow(2, TRUE), GameRow(1, TRUE)>>
    /\ calls = [c \in Connections |-> NoCall]
    /\ last.reply = "quick_start"
    /\ user_games[1].kind = "game"
    /\ user_games[1].current_task = NoTask
    /\ user_games[2].current_task # NoTask
C24_Playing(g) == g.kind = "game" /\ g.is_game_started /\ g.current_task # NoTask

\* C24: a session is playing (started, with a task drawn) only when a game type,
\* a mode and a complete roster were chosen for it; a roster is taken only at
\* the step the choice of a mode leads to, for a session whose type was chosen;
\* and a start-game event for a session without a roster does not make it playing
C24_PlayingOnlyAfterSetup ==
    [][\A chat \in GameChats :
          LET g == user_games[chat]
              h == user_games'[chat]
          IN  /\ C24_Playing(h) =>
                     /\ h.game_type \in GameTypes
                     /\ h.game_mode \in GameModes
                     /\ \E game_type \in GameTypes : h.players = Roster(game_type)
              /\ (last'.reply = "players_confirm" /\ h.players # g.players) =>
                     /\ g.setup_step = "names"
                     /\ g.game_mode \in GameModes
                     /\ g.game_type \in GameTypes
              /\ ((\E user_id \in Users : StartGame(chat, user_id)) /\ g.players = <<>>) =>
                     ~C24_Playing(h)]_vars

\* a session set up by type, mode and names, then started: its first task is drawn
C24_Witness ==
    LET g == user_games[1] IN
    /\ C24_Playing(g)
    /\ g.setup_step = "names"
    /\ g.game_type = "2couples"
    /\ g.game_mode = "extended"
    /\ g.players = Roster("2couples")
    /\ last.reply = "task"

\* the templates of the game types, as the claim lists them
C25_Template(game_type) ==
    IF game_type = "2couples" THEN <<"male", "female", "male", "female">>
    ELSE IF game_type = "fmf" THEN <<"female", "male", "female">>
    ELSE <<"male", "female", "male">>

C26_Without(queue, id) == Ids(SelectSeq(queue, LAMBDA t : t.id # id))

C27_SkipChangesOneKey ==
    [][/\ \A gender \in {"male", "common"} :
             LET queue == get_pending_moderation_tasks("2couples", "acquaintance", gender)' IN
             /\ {queue[i] : i \in 1..Len(queue)} =
                    {t \in tasks' : /\ t.game_mode = "2couples"
                                    /\ t.category = "acquaintance"
                                    /\ t.gender = gender
                                    /\ t.is_custom
                                    /\ t.moderation_status = "pending"}
             /\ \A i, j \in 1..Len(queue) :
                    i < j => \/ queue[i].moderation_order < queue[j].moderation_order
                             \/ /\ queue[i].moderation_order = queue[j].moderation_order
                                /\ queue[i].id < queue[j].id
       /\ \A id \in 1..Cardinality(SeedQueue) :
             LET t == get_task_by_id(id)
                 skipped == get_task_by_id(id)'
             IN  (last'.event = "skip_task_for_moderation" /\ last'.task_id = id)
                    => /\ tasks' \ {skipped} = tasks \ {t}
                       /\ skipped = [t EXCEPT !.moderation_order = skipped.moderation_order]
                       /\ \A gender \in {"male", "common"} \ {t.gender} :
                              get_pending_moderation_tasks("2couples", "acquaintance", gender)' =
                              get_pending_moderation_tasks("2couples", "acquaintance", gender)
                       /\ ~(t.is_custom /\ t.moderation_status = "pending") =>
                              tasks' = tasks]_vars

\* a rejected task was skipped while another task of its partition was pending
\* with a key above its own: the rejected task kept its key
C27_Witness ==
    /\ last.event = "skip_task_for_moderation"
    /\ last.task_id = 2
    /\ get_task_by_id(2).moderation_status = "rejected"
    /\ get_task_by_id(2).moderation_order = 0
    /\ Ids(get_pending_moderation_tasks("2couples", "acquaintance", "male")) = <<3, 1>>
    /\ Ids(get_pending_moderation_tasks("2couples", "acquaintance", "common")) = <<4>>

\* C28: delete_custom_task removes the task and returns true exactly when the
\* task exists, is custom, belongs to the requesting user and is a draft or
\* pending; in every other case it returns false and the store is unchanged
C28_DeleteOwnDraftOrPending ==
    [][\A id \in TaskIds, u \in Users :
          LET t == get_task_by_id(id)
              deletable == /\ HasRow(id)
                           /\ t.is_custom
                           /\ t.created_by = u
                           /\ t.moderation_status \in {"draft", "pending"}
          IN  DeleteCustomTask(id, u) =>
                 /\ last'.ok = deletable
                 /\ tasks' = IF deletable THEN tasks \ {t} ELSE tasks]_vars

\* C29: every base task is approved and visible, whatever was added, submitted,
\* moderated, skipped or updated
C29_BaseTasksStayApproved ==
    \A t \in tasks : ~t.is_custom => t.moderation_status = "approved" /\ t.is_public

\* a base task was updated, and a moderation of it was then refused
C29_Witness ==
    /\ last.event = "moderate_task"
    /\ ~last.ok
    /\ HasRow(last.task_id)
    /\ ~get_task_by_id(last.task_id).is_custom
    /\ get_task_by_id(last.task_id).text = "b"

C32_EventOf(chat) ==
    \E user_id \in Users :
        \/ StartGameSetup(chat)
        \/ \E game_type \in SetupTypes : QuickStartGame(chat, game_type)
        \/ StartGame(chat, user_id)
        \/ HandleTaskCompleted(chat, user_id, MaxTurns)
        \/ HandleEndGame(chat)

\* the sessions one event makes of session g when no other chat exists
C32_Alone(g) ==
    LET game_mode == IF g.kind = "game" /\ g.game_mode # None THEN g.game_mode ELSE "basic"
    IN  {NoGame, g, NewGame(<<>>, FALSE, "game_type", None, None)}
        \cup {NewGame(Roster(game_type), TRUE, "completed", game_mode, game_type) :
                 game_type \in SetupTypes}
        \cup UNION {{o.game : o \in start_game_round([g EXCEPT !.is_game_started = TRUE], user_id)
                                     \cup handle_task_completed(g, user_id)} :
                    user_id \in Users}

\* C32: an event of one chat leaves the session of every other chat as it
\* was, and makes of its own chat's session what the same event makes of
\* that session alone, whatever the other chats hold
C32_SessionsIsolated ==
    [][\A chat \in Chats :
          C32_EventOf(chat) =>
              /\ \A other \in Chats \ {chat} : user_games'[other] = user_games[other]
              /\ user_games'[chat] \in C32_Alone(user_games[chat])]_vars

C32_Witness ==
    /\ user_games[1].kind = "game"
    /\ user_games[2].kind = "game"
    /\ TotalCompleted(user_games[1]) = 1
    /\ TotalCompleted(user_games[2]) = 0
    /\ user_games[2].current_task # NoTask
    /\ last.drawn # NotCalled

C34_Content(t) == <<t.text, t.category, t.gender, t.game_mode, t.created_by, t.is_custom>>

\* C34: a successful approve leaves the task approved and public, a successful
\* reject leaves it rejected and not public, and neither changes the task's
\* text, category, gender, game type or owner
C34_ModerationSetsStatusAndVisibility ==
    [][(last'.event \in {"moderate_task", "handle_moderate_task"} /\ last'.ok) =>
       \A id \in {last'.task_id}, action \in {"approve", "reject"} :
          (ModerateTask(id, action) \/ \E u \in Users : HandleModerateTask(id, action, u)) =>
              LET before == get_task_by_id(id)
                  after == get_task_by_id(id)'
              IN  /\ HasRow(id)'
                  /\ after.moderation_status =
                         (IF action = "approve" THEN "approved" ELSE "rejected")
                  /\ after.is_public = (action = "approve")
                  /\ C34_Content(after) = C34_Content(before)
                  /\ tasks' \ {after} = tasks \ {before}]_vars

\* a moderation has just rejected a pending task of user 2
C34_Witness ==
    /\ last.event \in {"moderate_task", "handle_moderate_task"}
    /\ last.ok
    /\ HasRow(last.task_id)
    /\ get_task_by_id(last.task_id).moderation_status = "rejected"
    /\ ~get_task_by_id(last.task_id).is_public
    /\ get_task_by_id(last.task_id).created_by = 2

\* C35: a stored block is cleared by an unblock only: every other event,
\* the block check included, leaves is_blocked set and, unless it blocks the
\* user again, the end of the block as stored; when the end of a temporary
\* block has passed both are still stored and is_user_blocked is false
C35_OnlyUnblockClearsBlock ==
    [][\A u \in UserIds :
          /\ (users[u].is_blocked /\ ~(last'.event = "admin_unblock_user" /\ last'.ok)) =>
                 /\ users'[u].is_blocked
                 /\ \/ users'[u].blocked_until = users[u].blocked_until
                    \/ last'.event = "admin_confirm_block" /\ last'.ok
          /\ (/\ users'[u].is_blocked
              /\ users'[u].blocked_until # Forever
              /\ now' >= users'[u].blocked_until) => ~is_user_blocked(users, u)']_vars

\* user 2 was served after the end of their temporary block, which is still stored
C35_Witness ==
    /\ users[2].is_blocked
    /\ users[2].blocked_until # Forever
    /\ now >= users[2].blocked_until
    /\ ~is_user_blocked(users, 2)
    /\ last.event = "start"
    /\ last.user_id = 2
    /\ last.reply = "welcome"

\* the number of ids in the three used buckets of a category
C36_UsedCount(g, category) ==
    Len(g.used_tasks[category]["male"]) + Len(g.used_tasks[category]["female"])
        + Len(g.used_tasks[category]["common"])

C36_InStep(g) ==
    g.kind = "game" =>
        \A category \in CategorySet :
            g.tasks_completed_per_category[category] = C36_UsedCount(g, category)

\* C36: the completed counter of every category equals the number of ids in
\* the category's three used buckets: a complete or a skip that counts adds
\* one id and one count to the current category, and an advance leaves the
\* new category with empty buckets and a counter of zero
C36_CounterMatchesUsedBuckets ==
    [][\A chat \in GameChats :
          LET g == user_games[chat]
              after == user_games'[chat]
          IN  /\ C36_InStep(after)
              /\ (/\ g.kind = "game"
                  /\ after.kind = "game"
                  /\ last'.reply \notin {"quick_start", "type_menu"}) =>
                     /\ after.current_category = g.current_category =>
                            \E n \in {0, 1} : \A category \in CategorySet :
                                LET d == IF category = g.current_category THEN n ELSE 0
                                IN  /\ after.tasks_completed_per_category[category] =
                                          g.tasks_completed_per_category[category] + d
                                    /\ C36_UsedCount(after, category) =
                                          C36_UsedCount(g, category) + d
                     /\ after.current_category # g.current_category =>
                            /\ after.tasks_completed_per_category[after.current_category] = 0
                            /\ C36_UsedCount(after, after.current_category) = 0]_vars

\* the game moved on to flirt after two tasks of acquaintance, and counted one there
C36_Witness ==
    \E chat \in GameChats :
        LET g == user_games[chat] IN
        /\ g.kind = "game"
        /\ g.current_category = "flirt"
        /\ g.tasks_completed_per_category["acquaintance"] = 2
        /\ C36_UsedCount(g, "acquaintance") = 2
        /\ g.tasks_completed_per_category["flirt"] = 1
        /\ C36_UsedCount(g, "flirt") = 1

\* C37: to continue in the current category draws the next task and leaves
\* the counters and the used buckets as they were, so that once a category
\* has reached the threshold every complete or skip of a task in it shows
\* the threshold message again
C37_ContinueKeepsThreshold ==
    [][\A chat \in GameChats, user_id \in Users :
          LET g == user_games[chat]
              after == user_games'[chat]
          IN  /\ HandleContinueCurrentCategory(chat, user_id) =>
                     /\ after.tasks_completed_per_category = g.tasks_completed_per_category
                     /\ after.used_tasks = g.used_tasks
                     /\ after.current_category = g.current_category
              /\ (/\ \/ HandleTaskCompleted(chat, user_id, MaxCompleted)
                      \/ HandleSkipTask(chat, user_id, MaxCompleted)
                  /\ g.kind = "game"
                  /\ g.current_task # NoTask
                  /\ ThresholdReached(g.tasks_completed_per_category[g.current_category])) =>
                     /\ last'.reply = "threshold"
                     /\ after.tasks_completed_per_category[g.current_category] =
                            g.tasks_completed_per_category[g.current_category] + 1]_vars

\* the threshold message was shown a second time in the same category
C37_Witness ==
    \E chat \in GameChats :
        LET g == user_games[chat] IN
        /\ g.kind = "game"
        /\ last.reply = "threshold"
        /\ g.tasks_completed_per_category[g.current_category] = CategoryThreshold + 1

\* C38: once a session is playing (started, with a task drawn) its roster is
\* fixed: an event that does not start a new session, a text message among
\* them, leaves the number, the order and the genders of its players as they were
C38_RosterFixedWhilePlaying ==
    [][\A chat \in GameChats :
          LET g == user_games[chat]
              after == user_games'[chat]
          IN  (/\ g.kind = "game"
               /\ g.is_game_started
               /\ g.current_task # NoTask
               /\ after.kind = "game"
               /\ last'.reply \notin {"quick_start", "type_menu"}) =>
                  after.players = g.players]_vars

\* C39: a custom task is public exactly when its moderation status is approved
C39_PublicIffApproved ==
    \A t \in tasks : t.is_custom => (t.is_public <=> t.moderation_status = "approved")

C40_Started ==
    \E chat \in GameChats : user_games[chat].kind = "game" /\ user_games[chat].is_game_started

C40_Complete ==
    \E chat \in GameChats :
        last.reply = "game_complete" /\ user_games[chat].current_category = "fire"

\* C40: a started game whose players complete or skip every task, take the
\* next category whenever it is offered and continue otherwise, reaches the
\* end of the game in the last category; until then there is always a
\* button of the message on display that the bot handles
C40_ReachesGameComplete ==
    /\ C40_Started ~> C40_Complete
    /\ []((C40_Started /\ ~C40_Complete) => ENABLED <<NextLive>>_vars)

\* the end of a game that passed the threshold of the last category and went on
C40_Witness ==
    \E chat \in GameChats :
        /\ last.reply = "game_complete"
        /\ user_games[chat].current_category = "fire"
        /\ user_games[chat].tasks_completed_per_category["fire"] > CategoryThreshold
====
